---- MODULE Spec2Model ----
(***************************************************************************)
(* Model of cargo-eval's platform module (src/src/platform.rs):            *)
(*   - the 0.2.0 cache migration (migrate_old_data / migrate_0_2_0),       *)
(*   - the cache directory resolver (get_cache_dir),                       *)
(*   - the path codec (write_path / read_path), unix and windows.          *)
(* Paths are sequences of components; the filesystem is a function from    *)
(* the paths the code can name to what is found there.                     *)
(***************************************************************************)
EXTENDS Integers, Sequences, FiniteSets, TLC

VARIABLES
    env,        \* the process environment: CARGO_HOME and HOME
    fs,         \* the filesystem: path -> what is there
    pc,         \* per process: position inside migrate_old_data
    kind,       \* per process: the MigrationKind of the running call
    log,        \* per process: the Vec<String> being built
    seen,       \* per process: the (old.exists(), new.exists()) scrutinee
    result,     \* per process: the Result of migrate_0_2_0
    ops,        \* per process: the filesystem calls made so far (history)
    arms,       \* per process: the match arms taken so far (history)
    before,     \* per process: the filesystem when the call started (history)
    runs,       \* the calls of migrate_old_data that have returned (history)
    resolved,   \* the value the last get_cache_dir call returned
    path,       \* codec: the path handed to write_path
    stream,     \* codec: the bytes in the writer / reader
    decoded,    \* codec: what read_path returned
    target,     \* the platform family the program is built for
    known,      \* windows: the known-folder table SHGetKnownFolderPath reads
    config,     \* the value the last get_config_dir call returned
    timeIn,     \* the clock reading or file metadata a timestamp is made of
    timeOut,    \* the value current_time / file_last_modified returned
    argv,       \* env::args() of the process
    matches     \* what get_matches handed to the argument parser, and got

migVars   == <<env, fs, pc, kind, log, seen, result, ops, arms, before, runs>>
codecVars == <<path, stream, decoded>>
auxVars   == <<target, known, config, timeIn, timeOut, argv, matches>>
vars      == <<env, fs, pc, kind, log, seen, result, ops, arms, before, runs,
               resolved, path, stream, decoded,
               target, known, config, timeIn, timeOut, argv, matches>>

(***************************************************************************)
(* Bounds                                                                  *)
(***************************************************************************)
MaxRuns == 3     \* calls of migrate_old_data in one behaviour
MaxPathLen == 3  \* bytes (unix) or 16-bit units (windows) in an encoded path

Procs == {1, 2}  \* processes that may run the migration

(***************************************************************************)
(* Paths and the environment                                               *)
(***************************************************************************)
None    == <<>>
Some(v) == <<v>>

\* Path::join with a relative, single-component argument
join(base, name) == Append(base, name)

parent(p) == SubSeq(p, 1, Len(p) - 1)

H == <<"/", "ch">>      \* the value of $CARGO_HOME when it is set
D == <<"/", "home">>    \* the value of $HOME when it is set

old_base(home)         == join(home, ".cargo")
old_script_cache(home) == join(old_base(home), "script-cache")
new_script_cache(home) == join(home, "script-cache")
old_binary_cache(home) == join(old_base(home), "binary-cache")
new_binary_cache(home) == join(home, "binary-cache")
old_other(home)        == join(old_base(home), "other")

\* the paths the code can name when $CARGO_HOME is `home`
FsPathsOf(home) ==
    { old_base(home), old_script_cache(home), old_binary_cache(home),
      old_other(home), new_script_cache(home), new_binary_cache(home) }

FsPaths == FsPathsOf(H)

\* What a path can hold.  "dir" is the legacy root as a directory, "file" a
\* regular file in its place; a subtree is named by its contents.
LegacyContents == {"empty", "c1"}
NewContents    == {"empty", "c2"}

FsStatesOf(home) ==
    { f \in [FsPathsOf(home) ->
               {"absent", "file", "dir", "x", "empty", "c1", "c2"}] :
        /\ f[old_base(home)] \in {"absent", "file", "dir"}
        /\ f[old_script_cache(home)] \in {"absent"} \cup LegacyContents
        /\ f[old_binary_cache(home)] \in {"absent"} \cup LegacyContents
        /\ f[old_other(home)] \in {"absent", "x"}
        /\ f[new_script_cache(home)] \in {"absent"} \cup NewContents
        /\ f[new_binary_cache(home)] \in {"absent"} \cup NewContents
        /\ f[old_base(home)] # "dir" =>
              /\ f[old_script_cache(home)] = "absent"
              /\ f[old_binary_cache(home)] = "absent"
              /\ f[old_other(home)] = "absent" }

FsStates == FsStatesOf(H)

\* the values the two variables can have: unset, an absolute directory, the
\* empty string, a relative directory
CargoHomeValues == { None, Some(H), Some(<<>>), Some(<<"rel">>) }
HomeValues      == { None, Some(D), Some(<<>>) }

\* mutant: every path is reported to exist
exists_always(f, p) == TRUE

(***************************************************************************)
(* std::path / std::fs as the migration uses them                          *)
(***************************************************************************)
\* Path::exists
exists(f, p) == p \in DOMAIN f /\ f[p] # "absent"

entries(f, p) == { q \in DOMAIN f : parent(q) = p /\ f[q] # "absent" }

\* fs::read_dir(p): Err unless p is a directory
read_dir_ok(f, p) == p \in DOMAIN f /\ f[p] = "dir"

\* mutant: the emptiness test is inverted
is_empty_dir_negated(f, p) == entries(f, p) # {}

\* fs::read_dir(p)?.next().is_none(), for a p that read_dir accepts
is_empty_dir(f, p) == entries(f, p) = {}

\* fs::rename(src, dst): rename(2).  A directory replaces an empty directory
\* and nothing else; io_ok = FALSE is any other OS error (EACCES, EIO, ...).
rename_ok(f, src, dst, io_ok) ==
    /\ io_ok
    /\ exists(f, src)
    /\ exists(f, dst) => f[dst] = "empty"

\* mutant: the subtree is copied, the source is left behind
rename_copy(f, src, dst) == [f EXCEPT ![dst] = f[src]]

rename(f, src, dst) == [f EXCEPT ![dst] = f[src], ![src] = "absent"]

\* fs::remove_dir(p): rmdir(2)
remove_dir_ok(f, p, io_ok) ==
    /\ io_ok
    /\ read_dir_ok(f, p)
    /\ entries(f, p) = {}

\* mutant: the directory is reported removed but left in place
remove_dir_noop(f, p) == f

remove_dir(f, p) == [f EXCEPT ![p] = "absent"]

(***************************************************************************)
(* MigrationKind and the log lines                                         *)
(***************************************************************************)
MigrationKind == {"DryRun", "ForReal"}

\* mutant: every kind is for real
for_real_always(k) == TRUE

\* mutant: the two kinds are mixed up
for_real_swapped(k) == k = "DryRun"

for_real(k) == k = "ForReal"

\* format!(fmt, args...): the template and the values it is given
Line(fmt, args) == [fmt |-> fmt, args |-> args]

DidNotMoveLine(old, new) ==
    Line("Did not move {:?}: new location {:?} already exists.", <<old, new>>)
MovedLine(old, new)      == Line("Moved {:?} to {:?}.", <<old, new>>)
RemovedLine(dir)         == Line("Removed empty directory {:?}", <<dir>>)
NotRemovingLine(dir)     == Line("Not removing {:?}: not empty.", <<dir>>)

\* the line pushed after the script-cache move (platform.rs:147)
ScriptMovedLine(home) ==
    MovedLine(old_script_cache(home), new_script_cache(home))

\* the line pushed after the binary-cache move (platform.rs:166)
BinaryMovedLine(home) ==
    MovedLine(old_script_cache(home), new_script_cache(home))

\* mutant: a subtree is moved whether or not its legacy copy exists
match_arm_move_missing(s) == IF s[1] /\ s[2] THEN "both" ELSE "move"

\* mutant: the new location is not looked at
match_arm_no_conflict(s) == IF s[1] THEN "move" ELSE "skip"

\* the arms of match (old.exists(), new.exists())
match_arm(s) ==
    IF s[1] /\ s[2] THEN "both"
    ELSE IF s[1] THEN "move"
    ELSE "skip"

\* mutant: the error is dropped and the function goes on
try_ignore(ok, next) == next

\* `?` on an io::Result: go on when Ok, return the error otherwise
try(ok, next) == IF ok THEN next ELSE "ret"

\* a filesystem call as the history records it: `io` is FALSE when the OS
\* refused it for a reason outside the model (EACCES, EIO, ...), `ok` is the
\* call's outcome, `at` the log as it was when the call was made
Op(name, args, io, ok, at) ==
    [op |-> name, args |-> args, io |-> io, ok |-> ok, at |-> at]

Home == env.CARGO_HOME[1]

(***************************************************************************)
(* migrate_old_data(kind), one action per filesystem call                  *)
(***************************************************************************)
\* no call of migrate_old_data has been made
ProcInit ==
    /\ pc = [p \in Procs |-> "idle"]
    /\ kind = [p \in Procs |-> "DryRun"]
    /\ log = [p \in Procs |-> <<>>]
    /\ seen = [p \in Procs |-> <<FALSE, FALSE>>]
    /\ result = [p \in Procs |-> "none"]
    /\ ops = [p \in Procs |-> <<>>]
    /\ arms = [p \in Procs |-> <<>>]
    /\ before = [p \in Procs |-> fs]
    /\ runs = <<>>

\* nothing has been encoded or decoded
CodecInit ==
    /\ path = None
    /\ stream = None
    /\ decoded = None

\* a unix build; no directory resolved, no timestamp taken, no arguments
AuxInit ==
    /\ target = "unix"
    /\ known = None
    /\ config = None
    /\ timeIn = None
    /\ timeOut = None
    /\ argv = None
    /\ matches = None

Init ==
    /\ env \in [CARGO_HOME : {None, Some(H)}, HOME : {None, Some(D)}]
    /\ fs \in FsStates
    /\ ProcInit
    /\ resolved = None
    /\ CodecInit
    /\ AuxInit

Active == { q \in Procs : pc[q] # "idle" }

\* platform.rs:112-129: the call starts, reads CARGO_HOME, tests old_base
Start(p, k) ==
    /\ pc[p] = "idle"
    /\ Len(runs) + Cardinality(Active) < MaxRuns
    /\ kind' = [kind EXCEPT ![p] = k]
    /\ log' = [log EXCEPT ![p] = <<>>]
    /\ seen' = [seen EXCEPT ![p] = <<FALSE, FALSE>>]
    /\ ops' = [ops EXCEPT ![p] = <<>>]
    /\ arms' = [arms EXCEPT ![p] = <<>>]
    /\ before' = [before EXCEPT ![p] = fs]
    /\ IF env.CARGO_HOME # None /\ exists(fs, old_base(Home))
         THEN /\ pc' = [pc EXCEPT ![p] = "script_old"]
              /\ result' = [result EXCEPT ![p] = "none"]
         ELSE /\ pc' = [pc EXCEPT ![p] = "ret"]
              /\ result' = [result EXCEPT ![p] = "Ok"]
    /\ UNCHANGED <<env, fs, runs, resolved, codecVars, auxVars>>

\* the first component of the match scrutinee: old.exists()
OldExists(p, at, old, next) ==
    /\ pc[p] = at
    /\ seen' = [seen EXCEPT ![p] = <<exists(fs, old), FALSE>>]
    /\ pc' = [pc EXCEPT ![p] = next]
    /\ UNCHANGED <<env, fs, kind, log, result, ops, arms, before, runs,
                   resolved, codecVars, auxVars>>

\* the second component: new.exists()
NewExists(p, at, new, next) ==
    /\ pc[p] = at
    /\ seen' = [seen EXCEPT ![p] = <<seen[p][1], exists(fs, new)>>]
    /\ pc' = [pc EXCEPT ![p] = next]
    /\ UNCHANGED <<env, fs, kind, log, result, ops, arms, before, runs,
                   resolved, codecVars, auxVars>>

\* the body of the match: skip with a line, move with a line, or nothing
Arm(p, at, old, new, movedLine, next) ==
    /\ pc[p] = at
    /\ LET arm   == match_arm(seen[p])
           doing == arm = "move" /\ for_real(kind[p])
       IN  \E io_ok \in IF doing THEN BOOLEAN ELSE {TRUE} :
             LET ok == doing => rename_ok(fs, old, new, io_ok)
             IN  /\ fs' = IF doing /\ ok THEN rename(fs, old, new) ELSE fs
                 /\ ops' = IF doing
                             THEN [ops EXCEPT ![p] =
                                     Append(@, Op("rename", <<old, new>>, io_ok,
                                                  ok, log[p]))]
                             ELSE ops
                 /\ log' = IF arm = "both"
                             THEN [log EXCEPT ![p] =
                                     Append(@, DidNotMoveLine(old, new))]
                             ELSE IF arm = "move" /\ ok
                               THEN [log EXCEPT ![p] = Append(@, movedLine)]
                               ELSE log
                 /\ pc' = [pc EXCEPT ![p] = try(ok, next)]
                 /\ result' = [result EXCEPT ![p] = IF ok THEN @ ELSE "Err"]
                 /\ arms' = [arms EXCEPT ![p] = Append(@, <<old, arm>>)]
    /\ UNCHANGED <<env, kind, seen, before, runs, resolved, codecVars, auxVars>>

\* platform.rs:135-152
ScriptOldExists(p) ==
    OldExists(p, "script_old", old_script_cache(Home), "script_new")
ScriptNewExists(p) ==
    NewExists(p, "script_new", new_script_cache(Home), "script_arm")
ScriptArm(p) ==
    Arm(p, "script_arm", old_script_cache(Home), new_script_cache(Home),
        ScriptMovedLine(Home), "binary_old")

\* platform.rs:154-171
BinaryOldExists(p) ==
    OldExists(p, "binary_old", old_binary_cache(Home), "binary_new")
BinaryNewExists(p) ==
    NewExists(p, "binary_new", new_binary_cache(Home), "binary_arm")
BinaryArm(p) ==
    Arm(p, "binary_arm", old_binary_cache(Home), new_binary_cache(Home),
        BinaryMovedLine(Home), "read_dir")

\* platform.rs:174: fs::read_dir(&old_base)?.next().is_none()
ReadDir(p) ==
    /\ pc[p] = "read_dir"
    /\ LET dir   == old_base(Home)
           ok    == read_dir_ok(fs, dir)
           empty == is_empty_dir(fs, dir)
       IN  /\ ops' = [ops EXCEPT ![p] =
                        Append(@, Op("read_dir", <<dir>>, TRUE, ok,
                                          log[p]))]
           /\ log' = IF ok /\ ~empty
                       THEN [log EXCEPT ![p] = Append(@, NotRemovingLine(dir))]
                       ELSE log
           /\ pc' = [pc EXCEPT ![p] =
                       IF ok /\ empty THEN "remove_dir" ELSE "ret"]
           /\ result' = [result EXCEPT ![p] =
                           IF ~ok THEN "Err" ELSE IF empty THEN @ ELSE "Ok"]
    /\ UNCHANGED <<env, fs, kind, seen, arms, before, runs, resolved,
                   codecVars, auxVars>>

\* platform.rs:175-179
RemoveDir(p) ==
    /\ pc[p] = "remove_dir"
    /\ LET dir   == old_base(Home)
           doing == for_real(kind[p])
       IN  \E io_ok \in IF doing THEN BOOLEAN ELSE {TRUE} :
             LET ok == doing => remove_dir_ok(fs, dir, io_ok)
             IN  /\ fs' = IF doing /\ ok THEN remove_dir(fs, dir) ELSE fs
                 /\ ops' = IF doing
                             THEN [ops EXCEPT ![p] =
                                     Append(@, Op("remove_dir", <<dir>>, io_ok,
                                                  ok, log[p]))]
                             ELSE ops
                 /\ log' = IF ok
                             THEN [log EXCEPT ![p] =
                                     Append(@, RemovedLine(dir))]
                             ELSE log
                 /\ pc' = [pc EXCEPT ![p] = "ret"]
                 /\ result' = [result EXCEPT ![p] = IF ok THEN "Ok" ELSE "Err"]
    /\ UNCHANGED <<env, kind, seen, arms, before, runs, resolved,
                   codecVars, auxVars>>

\* platform.rs:114-118: migrate_old_data returns (log, result)
Return(p) ==
    /\ pc[p] = "ret"
    /\ runs' = Append(runs, [kind |-> kind[p], before |-> before[p],
                             after |-> fs, log |-> log[p],
                             result |-> result[p], ops |-> ops[p],
                             arms |-> arms[p]])
    /\ pc' = [pc EXCEPT ![p] = "idle"]
    /\ UNCHANGED <<env, fs, kind, log, seen, result, ops, arms, before,
                   resolved, codecVars, auxVars>>

Step(p) ==
    \/ ScriptOldExists(p) \/ ScriptNewExists(p) \/ ScriptArm(p)
    \/ BinaryOldExists(p) \/ BinaryNewExists(p) \/ BinaryArm(p)
    \/ ReadDir(p) \/ RemoveDir(p) \/ Return(p)

\* one process calls migrate_old_data again and again
Next == \/ \E k \in MigrationKind : Start(1, k)
        \/ Step(1)

Spec == Init /\ [][Next]_vars

(***************************************************************************)
(* Two processes running migrate_old_data(ForReal) on the same cache root. *)
(* Nothing in platform.rs:112-190 takes a lock, so every filesystem call   *)
(* of one process can fall between two calls of the other.                 *)
(***************************************************************************)
MaxConcRuns == 2  \* calls of migrate_old_data by the two processes together

InitConc ==
    /\ env \in [CARGO_HOME : {Some(H)}, HOME : {None, Some(D)}]
    /\ fs \in FsStates
    /\ ProcInit
    /\ resolved = None
    /\ CodecInit
    /\ AuxInit

StartConc(p) ==
    /\ Len(runs) + Cardinality(Active) < MaxConcRuns
    /\ Start(p, "ForReal")

NextConc == \E p \in Procs : StartConc(p) \/ Step(p)

SpecConc == InitConc /\ [][NextConc]_vars

(***************************************************************************)
(* get_cache_dir (unix), platform.rs:78-100                                *)
(***************************************************************************)
OkPath(p)        == [ok |-> TRUE, path |-> p]
ErrMsg(who, msg) == [ok |-> FALSE, blame |-> who, msg |-> msg]

\* mutant: the legacy directory is kept only when it holds both subtrees
has_legacy_cache_both(f, old_home) ==
    /\ exists(f, join(old_home, "script-cache"))
    /\ exists(f, join(old_home, "binary-cache"))

\* platform.rs:85
has_legacy_cache(f, old_home) ==
    \/ exists(f, join(old_home, "script-cache"))
    \/ exists(f, join(old_home, "binary-cache"))

\* the message of platform.rs:99, cut at the names it mentions
NeitherDefined == << "neither ", "$CARGO_HOME", " nor ", "$HOME", " is defined" >>

\* mutant: $HOME is consulted before $CARGO_HOME
get_cache_dir_home_first(e, f) ==
    IF e.HOME # None
      THEN OkPath(join(e.HOME[1], ".cargo"))
    ELSE IF e.CARGO_HOME # None
      THEN LET home     == e.CARGO_HOME[1]
               old_home == join(home, ".cargo")
           IN  IF exists(f, old_home) /\ has_legacy_cache(f, old_home)
                 THEN OkPath(old_home)
                 ELSE OkPath(home)
      ELSE ErrMsg("Human", NeitherDefined)

get_cache_dir(e, f) ==
    IF e.CARGO_HOME # None
      THEN LET home     == e.CARGO_HOME[1]
               old_home == join(home, ".cargo")
           IN  IF exists(f, old_home) /\ has_legacy_cache(f, old_home)
                 THEN OkPath(old_home)
                 ELSE OkPath(home)
    ELSE IF e.HOME # None
      THEN OkPath(join(e.HOME[1], ".cargo"))
      ELSE ErrMsg("Human", NeitherDefined)

\* a call of get_cache_dir in the current environment and filesystem
CallGetCacheDir ==
    /\ resolved = None
    /\ resolved' = Some(get_cache_dir(env, fs))
    /\ UNCHANGED <<migVars, codecVars, auxVars>>

NextResolver == CallGetCacheDir

\* every environment, and every filesystem under the $CARGO_HOME in use
InitResolver ==
    /\ env \in [CARGO_HOME : CargoHomeValues, HOME : HomeValues]
    /\ fs \in FsStatesOf(IF env.CARGO_HOME # None THEN env.CARGO_HOME[1] ELSE H)
    /\ ProcInit
    /\ resolved = None
    /\ CodecInit
    /\ AuxInit

SpecResolver == InitResolver /\ [][NextResolver]_vars

(***************************************************************************)
(* get_cache_dir and get_config_dir on both families,                      *)
(* platform.rs:78-110 and 260-308                                          *)
(***************************************************************************)
KnownFolderIds == {"FOLDERID_LocalAppData", "FOLDERID_RoamingAppData"}

\* winapi::S_OK and two failure HRESULTs (E_INVALIDARG, E_FAIL), as i32
S_OK         == 0
E_INVALIDARG == 0 - 2147024809
E_FAIL       == 0 - 2147467259

LocalAppData   == << "C:", "Users", "u", "AppData", "Local" >>
RoamingAppData == << "C:", "Users", "u", "AppData", "Roaming" >>

\* what shell32::SHGetKnownFolderPath can answer for one folder id
FolderAnswers ==
    { [hresult |-> S_OK, psz_path |-> d] : d \in {LocalAppData, RoamingAppData} }
    \cup { [hresult |-> h, psz_path |-> None] : h \in {E_INVALIDARG, E_FAIL} }

KnownFolderTables == [KnownFolderIds -> FolderAnswers]

\* platform.rs:283-287 with to_string(), platform.rs:262
WinErrorString(hresult) == << "HRESULT(", hresult, ")" >>

ErrString(msg) == [ok |-> FALSE, msg |-> msg]

\* platform.rs:289-308
SHGetKnownFolderPath(tbl, rfid) ==
    IF tbl[rfid].hresult = S_OK
      THEN [ok |-> TRUE, dir |-> tbl[rfid].psz_path]
      ELSE [ok |-> FALSE, hresult |-> tbl[rfid].hresult]

\* windows, platform.rs:260-265
get_cache_dir_windows(tbl) ==
    LET r == SHGetKnownFolderPath(tbl, "FOLDERID_LocalAppData")
    IN  IF r.ok THEN OkPath(join(r.dir, "Cargo"))
        ELSE ErrString(WinErrorString(r.hresult))

\* mutant: the configuration directory is looked up as the cache directory is
get_config_dir_windows_local(tbl) ==
    LET r == SHGetKnownFolderPath(tbl, "FOLDERID_LocalAppData")
    IN  IF r.ok THEN OkPath(join(r.dir, "Cargo"))
        ELSE ErrString(WinErrorString(r.hresult))

\* windows, platform.rs:272-277
get_config_dir_windows(tbl) ==
    LET r == SHGetKnownFolderPath(tbl, "FOLDERID_RoamingAppData")
    IN  IF r.ok THEN OkPath(join(r.dir, "Cargo"))
        ELSE ErrString(WinErrorString(r.hresult))

\* unix, platform.rs:107-110
get_config_dir(e, f) == get_cache_dir(e, f)

InitDirs ==
    /\ \/ /\ target = "unix"
          /\ known = None
          /\ env \in [CARGO_HOME : CargoHomeValues, HOME : HomeValues]
          /\ fs \in FsStatesOf(IF env.CARGO_HOME # None
                                 THEN env.CARGO_HOME[1] ELSE H)
       \/ /\ target = "windows"
          /\ known \in { Some(tbl) : tbl \in KnownFolderTables }
          /\ env = [CARGO_HOME |-> None, HOME |-> None]
          /\ fs = [q \in FsPaths |-> "absent"]
    /\ ProcInit
    /\ resolved = None
    /\ CodecInit
    /\ config = None
    /\ timeIn = None
    /\ timeOut = None
    /\ argv = None
    /\ matches = None

GetCacheDirUnix ==
    /\ target = "unix"
    /\ CallGetCacheDir

GetConfigDirUnix ==
    /\ target = "unix"
    /\ config = None
    /\ config' = Some(get_config_dir(env, fs))
    /\ UNCHANGED <<migVars, resolved, codecVars, target, known,
                   timeIn, timeOut, argv, matches>>

GetCacheDirWindows ==
    /\ target = "windows"
    /\ resolved = None
    /\ resolved' = Some(get_cache_dir_windows(known[1]))
    /\ UNCHANGED <<migVars, codecVars, auxVars>>

GetConfigDirWindows ==
    /\ target = "windows"
    /\ config = None
    /\ config' = Some(get_config_dir_windows(known[1]))
    /\ UNCHANGED <<migVars, resolved, codecVars, target, known,
                   timeIn, timeOut, argv, matches>>

NextDirs ==
    \/ GetCacheDirUnix \/ GetConfigDirUnix
    \/ GetCacheDirWindows \/ GetConfigDirWindows

SpecDirs == InitDirs /\ [][NextDirs]_vars

(***************************************************************************)
(* write_path / read_path.  A unix path is its bytes (OsStrExt::as_bytes);  *)
(* a windows path is an OsString: a sequence of code points in which a      *)
(* surrogate stands alone (a high surrogate followed by a low one is one    *)
(* supplementary code point).                                               *)
(***************************************************************************)
SeqsUpTo(S, n) == UNION { [1..k -> S] : k \in 0..n }

\* '/', 'a', and two bytes that are not valid UTF-8
UnixBytes == {47, 97, 128, 255}

\* 'A', U+0100, a high surrogate, a low surrogate, U+FFFF
WideUnits == {65, 256, 55296, 56320, 65535}

is_high_surrogate(u) == 55296 <= u /\ u <= 56319
is_low_surrogate(u)  == 56320 <= u /\ u <= 57343

\* io::Write::write_all on a Vec-like writer; io::Read::read_to_end
write_all(w, bytes) == w \o bytes
read_to_end(r)      == r

OkRead(p) == [ok |-> TRUE, path |-> p]
Panic     == [ok |-> FALSE, panic |-> TRUE]

\* unix, platform.rs:192-203
as_bytes(os)   == os
from_bytes(bs) == bs

write_path_unix(w, os) == write_all(w, as_bytes(os))
read_path_unix(r)      == OkRead(from_bytes(read_to_end(r)))

\* OsStrExt::encode_wide: the UTF-16 units of the code points
RECURSIVE encode_wide(_)
encode_wide(os) ==
    IF os = <<>> THEN <<>>
    ELSE LET c == Head(os)
         IN  (IF c >= 65536
                THEN << 55296 + ((c - 65536) \div 1024),
                        56320 + ((c - 65536) % 1024) >>
                ELSE << c >>) \o encode_wide(Tail(os))

\* OsStringExt::from_wide: a surrogate pair is one code point, any other
\* unit, a lone surrogate included, is kept as it is
RECURSIVE from_wide(_)
from_wide(ws) ==
    IF ws = <<>> THEN <<>>
    ELSE IF Len(ws) >= 2 /\ is_high_surrogate(ws[1]) /\ is_low_surrogate(ws[2])
      THEN << 65536 + (ws[1] - 55296) * 1024 + (ws[2] - 56320) >>
             \o from_wide(SubSeq(ws, 3, Len(ws)))
      ELSE << ws[1] >> \o from_wide(Tail(ws))

\* platform.rs:332-333: the two bytes of a word, low byte first
lo_hi(word) == << word % 256, (word \div 256) % 256 >>

\* mutant: the bytes are read high byte first
word_of_big_endian(lo, hi) == (hi + lo * 256) % 65536

\* platform.rs:348: lo as u16 | ((hi as u16) << 8)
word_of(lo, hi) == (lo + hi * 256) % 65536

\* windows, platform.rs:329-337
RECURSIVE write_words(_, _)
write_words(w, words) ==
    IF words = <<>> THEN w
    ELSE write_words(write_all(w, lo_hi(Head(words))), Tail(words))

write_path_windows(w, os) == write_words(w, encode_wide(os))

\* platform.rs:344-349: None when it.next().unwrap() finds no high byte
RECURSIVE read_words(_, _)
read_words(buf, words) ==
    IF buf = <<>> THEN Some(words)
    ELSE IF Len(buf) = 1 THEN None
    ELSE read_words(SubSeq(buf, 3, Len(buf)),
                    Append(words, word_of(buf[1], buf[2])))

\* windows, platform.rs:339-352
read_path_windows(r) ==
    LET words == read_words(read_to_end(r), <<>>)
    IN  IF words = None THEN Panic ELSE OkRead(from_wide(words[1]))

UnixPaths    == SeqsUpTo(UnixBytes, MaxPathLen)
WindowsPaths == { from_wide(ws) : ws \in SeqsUpTo(WideUnits, MaxPathLen) }

InitCodec ==
    /\ env = [CARGO_HOME |-> None, HOME |-> None]
    /\ fs = [q \in FsPaths |-> "absent"]
    /\ ProcInit
    /\ resolved = None
    /\ path \in { Some([family |-> "unix", os |-> os]) : os \in UnixPaths }
           \cup { Some([family |-> "windows", os |-> os]) : os \in WindowsPaths }
    /\ stream = None
    /\ decoded = None
    /\ AuxInit

WritePathUnix ==
    /\ path # None /\ path[1].family = "unix"
    /\ stream = None
    /\ stream' = Some(write_path_unix(<<>>, path[1].os))
    /\ UNCHANGED <<migVars, resolved, path, decoded, auxVars>>

ReadPathUnix ==
    /\ path # None /\ path[1].family = "unix"
    /\ stream # None /\ decoded = None
    /\ decoded' = Some(read_path_unix(stream[1]))
    /\ UNCHANGED <<migVars, resolved, path, stream, auxVars>>

WritePathWindows ==
    /\ path # None /\ path[1].family = "windows"
    /\ stream = None
    /\ stream' = Some(write_path_windows(<<>>, path[1].os))
    /\ UNCHANGED <<migVars, resolved, path, decoded, auxVars>>

ReadPathWindows ==
    /\ path # None /\ path[1].family = "windows"
    /\ stream # None /\ decoded = None
    /\ decoded' = Some(read_path_windows(stream[1]))
    /\ UNCHANGED <<migVars, resolved, path, stream, auxVars>>

NextCodec ==
    \/ WritePathUnix \/ ReadPathUnix
    \/ WritePathWindows \/ ReadPathWindows

SpecCodec == InitCodec /\ [][NextCodec]_vars

\* read_path (windows) on a stream that write_path did not produce
MaxStreamLen == 3
StreamBytes  == {0, 65, 216, 220, 255}

InitDecode ==
    /\ env = [CARGO_HOME |-> None, HOME |-> None]
    /\ fs = [q \in FsPaths |-> "absent"]
    /\ ProcInit
    /\ resolved = None
    /\ path = None
    /\ stream \in { Some(bs) : bs \in SeqsUpTo(StreamBytes, MaxStreamLen) }
    /\ decoded = None
    /\ AuxInit

DecodeWindows ==
    /\ path = None
    /\ stream # None /\ decoded = None
    /\ decoded' = Some(read_path_windows(stream[1]))
    /\ UNCHANGED <<migVars, resolved, path, stream, auxVars>>

NextDecode == DecodeWindows

SpecDecode == InitDecode /\ [][NextDecode]_vars

(***************************************************************************)
(* current_time and file_last_modified, platform.rs:30-45, 64-71, 238-251  *)
(***************************************************************************)
MaxSec == 3   \* seconds either side of the epoch in a clock or mtime reading

\* A windows time is a 64-bit count; it is kept as its digits in a mixed
\* radix so that every digit fits a machine integer of the checker:
\* a FILETIME is <<q, r, t>> = (q * Million + r) * TicksPerMs + t and a
\* millisecond count is <<q, r>> = q * Million + r.
Million    == 1000000
TicksPerMs == 1000 * 10

\* platform.rs:241, 11_644_473_600_000
MS_BETWEEN_1601_1970 == << 11644473, 600000 >>

\* platform.rs:246: mtime_100ns_1601_utc / (1000*10)
div_ticks(ft) == << ft[1], ft[2] >>

less_than(a, b) == a[1] < b[1] \/ (a[1] = b[1] /\ a[2] < b[2])

\* mutant: the subtraction wraps below zero instead of saturating
saturating_sub_wrapping(a, b) ==
    IF a[2] >= b[2] THEN << a[1] - b[1], a[2] - b[2] >>
    ELSE << a[1] - b[1] - 1, a[2] + Million - b[2] >>

\* u64::saturating_sub
saturating_sub(a, b) ==
    IF less_than(a, b) THEN << 0, 0 >>
    ELSE IF a[2] >= b[2] THEN << a[1] - b[1], a[2] - b[2] >>
    ELSE << a[1] - b[1] - 1, a[2] + Million - b[2] >>

\* cmp::max
max(a, b) == IF a >= b THEN a ELSE b

\* Result::unwrap_or on file.metadata().map(..)
unwrap_or(md, default) == IF md = None THEN default ELSE md[1]

\* platform.rs:30-45
current_time(sec, nsec) ==
    IF sec < 0 \/ nsec < 0 THEN 0
    ELSE sec * 1000 + nsec \div 1000000

\* unix, platform.rs:64-71
file_last_modified_unix(md) ==
    LET mtime_s_1970_utc == unwrap_or(md, 0)
    IN  max(0, mtime_s_1970_utc) * 1000

\* windows, platform.rs:238-251
file_last_modified_windows(md) ==
    LET mtime_100ns_1601_utc == unwrap_or(md, << 0, 0, 0 >>)
        mtime_ms_1601_utc    == div_ticks(mtime_100ns_1601_utc)
    IN  saturating_sub(mtime_ms_1601_utc, MS_BETWEEN_1601_1970)

\* clock readings: whole seconds around the epoch, nanoseconds at the ends of
\* their range (a negative one is tested for by the code)
Seconds     == (0 - MaxSec)..MaxSec
Nanoseconds == { 0 - 1, 0, 999999, 1000000, 999999999 }

\* FILETIMEs around 1970-01-01, and the 1601 origin
FileTimes ==
    { << q, r, t >> : q \in {0, 11644472, 11644473, 11644474},
                      r \in {0, 599999, 600000, 600001},
                      t \in {0, TicksPerMs - 1} }

TimeInputs ==
    { [fn |-> "current_time", sec |-> sc, nsec |-> ns] :
          sc \in Seconds, ns \in Nanoseconds }
    \cup { [fn |-> "file_last_modified", family |-> "unix", md |-> md] :
          md \in {None} \cup { Some(sc) : sc \in Seconds } }
    \cup { [fn |-> "file_last_modified", family |-> "windows", md |-> md] :
          md \in {None} \cup { Some(ft) : ft \in FileTimes } }

InitTime ==
    /\ env = [CARGO_HOME |-> None, HOME |-> None]
    /\ fs = [q \in FsPaths |-> "absent"]
    /\ ProcInit
    /\ resolved = None
    /\ CodecInit
    /\ target = "unix"
    /\ known = None
    /\ config = None
    /\ timeIn \in { Some(i) : i \in TimeInputs }
    /\ timeOut = None
    /\ argv = None
    /\ matches = None

CurrentTime ==
    /\ timeIn # None /\ timeIn[1].fn = "current_time"
    /\ timeOut = None
    /\ timeOut' = Some(current_time(timeIn[1].sec, timeIn[1].nsec))
    /\ UNCHANGED <<migVars, resolved, codecVars, target, known, config,
                   timeIn, argv, matches>>

FileLastModifiedUnix ==
    /\ timeIn # None /\ timeIn[1].fn = "file_last_modified"
    /\ timeIn[1].family = "unix"
    /\ timeOut = None
    /\ timeOut' = Some(file_last_modified_unix(timeIn[1].md))
    /\ UNCHANGED <<migVars, resolved, codecVars, target, known, config,
                   timeIn, argv, matches>>

FileLastModifiedWindows ==
    /\ timeIn # None /\ timeIn[1].fn = "file_last_modified"
    /\ timeIn[1].family = "windows"
    /\ timeOut = None
    /\ timeOut' = Some(file_last_modified_windows(timeIn[1].md))
    /\ UNCHANGED <<migVars, resolved, codecVars, target, known, config,
                   timeIn, argv, matches>>

NextTime == CurrentTime \/ FileLastModifiedUnix \/ FileLastModifiedWindows

SpecTime == InitTime /\ [][NextTime]_vars

(***************************************************************************)
(* get_matches, app.rs:9-19 and 165-184.  An argument is the sequence of   *)
(* its characters.                                                         *)
(***************************************************************************)
MaxArgs == 3   \* arguments in env::args(), the program name included

\* app.rs:9
NAME == << "c", "a", "r", "g", "o", "-", "e", "v", "a", "l" >>

name == NAME

\* app.rs:18: &name()[6..]
subcommand_name == SubSeq(name, 6 + 1, Len(name))

\* env!("CARGO_PKG_VERSION")
CARGO_PKG_VERSION == << "CARGO_PKG_VERSION" >>

\* arguments a caller can pass
DashDashVersion == << "-", "-", "v", "e", "r", "s", "i", "o", "n" >>
ScriptArg       == << "s", ".", "r", "s" >>
ArgTokens ==
    { NAME, << "e", "v", "a", "l" >>, << "e", "v" >>, DashDashVersion, ScriptArg }

\* Vec::get
get(v, i) == IF i < Len(v) THEN Some(v[i + 1]) ELSE None

\* mutant: the element is put in front of the vector
insert_front(v, i, x) == Some(<< x >> \o v)

\* Vec::insert: None stands for the panic when i > len
insert(v, i, x) ==
    IF i > Len(v) THEN None
    ELSE Some(SubSeq(v, 1, i) \o << x >> \o SubSeq(v, i + 1, Len(v)))

\* app.rs:171-173
normalise(args) ==
    IF get(args, 1) # None /\ get(args, 1)[1] = subcommand_name
      THEN Some(args)
      ELSE insert(args, 1, subcommand_name)

\* App::new("cargo").bin_name("cargo")
bin_name == << "c", "a", "r", "g", "o" >>

\* app.rs:176-183: the wrapped application parses `cargo eval ...`.  Of the
\* parser only this much is modelled: `--version` right after the subcommand
\* prints "<bin_name>-<subcommand> <version>" and exits successfully; any
\* other arguments are handed on as the subcommand's matches.
get_matches_from(args) ==
    LET rest == SubSeq(args, 3, Len(args))
    IN  IF Len(args) < 2 \/ args[2] # subcommand_name
          THEN [exit |-> "help", args |-> args]
        ELSE IF rest # <<>> /\ rest[1] = DashDashVersion
          THEN [exit |-> "success", args |-> args,
                stdout |-> << bin_name \o << "-" >> \o subcommand_name,
                              CARGO_PKG_VERSION >>]
          ELSE [exit |-> "none", args |-> args,
                subcommand |-> subcommand_name, matches |-> rest]

\* app.rs:165-184
get_matches(args) ==
    LET n == normalise(args)
    IN  IF n = None THEN [exit |-> "panic", args |-> args]
        ELSE get_matches_from(n[1])

InitArgs ==
    /\ env = [CARGO_HOME |-> None, HOME |-> None]
    /\ fs = [q \in FsPaths |-> "absent"]
    /\ ProcInit
    /\ resolved = None
    /\ CodecInit
    /\ target = "unix"
    /\ known = None
    /\ config = None
    /\ timeIn = None
    /\ timeOut = None
    /\ argv \in { Some(a) : a \in SeqsUpTo(ArgTokens, MaxArgs) }
    /\ matches = None

GetMatches ==
    /\ argv # None
    /\ matches = None
    /\ matches' = Some(get_matches(argv[1]))
    /\ UNCHANGED <<migVars, resolved, codecVars, target, known, config,
                   timeIn, timeOut, argv>>

NextArgs == GetMatches

SpecArgs == InitArgs /\ [][NextArgs]_vars

(***************************************************************************)
(* Properties of the migration.  A run is a returned call, as recorded in  *)
(* `runs`.                                                                 *)
(***************************************************************************)
Subtrees == {"script-cache", "binary-cache"}

old_of(n) == join(old_base(Home), n)
new_of(n) == join(Home, n)

HomeSet == env.CARGO_HOME # None

Runs == { runs[i] : i \in DOMAIN runs }

\* no filesystem call of the run was refused by the OS from outside
NoIoError(r) == \A i \in DOMAIN r.ops : r.ops[i].io

OkRenames(r) ==
    { r.ops[i] : i \in { j \in DOMAIN r.ops :
                           r.ops[j].op = "rename" /\ r.ops[j].ok } }

Mutations(r) ==
    { i \in DOMAIN r.ops : r.ops[i].op \in {"rename", "remove_dir"} }

LinesOf(l, fmt) == { i \in DOMAIN l : l[i].fmt = fmt }

MovedFmt       == MovedLine(<<>>, <<>>).fmt
DidNotMoveFmt  == DidNotMoveLine(<<>>, <<>>).fmt
RemovedFmt     == RemovedLine(<<>>).fmt
NotRemovingFmt == NotRemovingLine(<<>>).fmt

\* C1: a DryRun call and a ForReal call started from the same filesystem,
\* both returning Ok, return the same log.
C1_DryRunLogEqualsForReal ==
    \A r1 \in Runs : \A r2 \in Runs :
        ( /\ r1.kind = "DryRun" /\ r2.kind = "ForReal"
          /\ r1.before = r2.before
          /\ r1.result = "Ok" /\ r2.result = "Ok" )
        => r1.log = r2.log

\* a ForReal call that returned Ok, directly followed by another ForReal call
SecondRuns ==
    { i \in DOMAIN runs :
        /\ i > 1
        /\ runs[i].kind = "ForReal"
        /\ runs[i - 1].kind = "ForReal"
        /\ runs[i - 1].result = "Ok" }

\* C2 as stated: the second ForReal call changes nothing and returns an
\* empty log.
C2_SecondRunEmptyLog ==
    \A i \in SecondRuns :
        /\ runs[i].after = runs[i].before
        /\ runs[i].log = <<>>

\* C2 as amended: the second ForReal call changes nothing and attempts no
\* rename or removal; its log is empty exactly when the first call left no
\* legacy root behind, and otherwise holds only "Did not move" lines and one
\* final "Not removing" line; it returns Ok.
C2_SecondRunNoOp ==
    \A i \in SecondRuns :
        LET r == runs[i]
        IN  /\ r.after = r.before
            /\ r.before = runs[i - 1].after
            /\ Mutations(r) = {}
            /\ r.result = "Ok"
            /\ LinesOf(r.log, MovedFmt) = {}
            /\ LinesOf(r.log, RemovedFmt) = {}
            /\ (r.log = <<>>) <=>
                 ~(HomeSet /\ exists(r.before, old_base(Home)))
            /\ r.log # <<>> =>
                 /\ r.log[Len(r.log)] = NotRemovingLine(old_base(Home))
                 /\ \A k \in 1..(Len(r.log) - 1) :
                       r.log[k].fmt = DidNotMoveFmt

\* C2 witness: a first ForReal call moved a subtree and returned Ok, and the
\* second ForReal call returned a log that is not empty.
C2_Witness ==
    \E i \in SecondRuns :
        /\ OkRenames(runs[i - 1]) # {}
        /\ runs[i].log # <<>>

\* the run stopped at the script-cache rename, before it looked at binary-cache
StoppedAtScript(r) ==
    \E i \in DOMAIN r.ops :
        /\ r.ops[i].op = "rename"
        /\ r.ops[i].args[1] = old_of("script-cache")
        /\ ~r.ops[i].ok

Conflict(f, n) == exists(f, old_of(n)) /\ exists(f, new_of(n))

Untouched(r, n) ==
    /\ r.after[old_of(n)] = r.before[old_of(n)]
    /\ r.after[new_of(n)] = r.before[new_of(n)]
    /\ \A i \in DOMAIN r.ops :
          r.ops[i].op = "rename" =>
             /\ r.ops[i].args[1] # old_of(n)
             /\ r.ops[i].args[2] # new_of(n)

OneConflictLine(r, n) ==
    Cardinality({ i \in DOMAIN r.log :
                    r.log[i] = DidNotMoveLine(old_of(n), new_of(n)) }) = 1

\* C3 as stated: a subtree present at both places before a call (either
\* kind) is unchanged at both places after it, is the subject of no rename,
\* and the log holds one line stating the conflict with both paths.
C3_ConflictAlwaysLogged ==
    HomeSet =>
      \A r \in Runs : \A n \in Subtrees :
          Conflict(r.before, n) =>
              Untouched(r, n) /\ OneConflictLine(r, n)

\* C3 as amended: as stated, except that the conflict line of binary-cache
\* is missing when the call returned the error of a failed script-cache
\* rename, which ends the call before binary-cache is looked at.
C3_ConflictUntouched ==
    HomeSet =>
      \A r \in Runs : \A n \in Subtrees :
          Conflict(r.before, n) =>
              /\ Untouched(r, n)
              /\ IF n = "binary-cache" /\ StoppedAtScript(r)
                   THEN r.result = "Err" /\ r.log = <<>>
                   ELSE OneConflictLine(r, n)

\* C3 witness: a ForReal call met binary-cache at both places after it had
\* moved script-cache, and returned.
C3_Witness ==
    /\ HomeSet
    /\ \E r \in Runs :
          /\ r.kind = "ForReal"
          /\ Conflict(r.before, "binary-cache")
          /\ OkRenames(r) # {}
          /\ OneConflictLine(r, "binary-cache")

\* the filesystem a call leaves when only the renames that succeeded in it
\* have taken place
OnlyRenames(r) ==
    [q \in FsPaths |->
        IF \E o \in OkRenames(r) : o.args[1] = q THEN "absent"
        ELSE IF \E o \in OkRenames(r) : o.args[2] = q
          THEN r.before[(CHOOSE o \in OkRenames(r) : o.args[2] = q).args[1]]
          ELSE r.before[q]]

\* C5: when a rename or the removal of the legacy root fails in a ForReal
\* call, that call is the last filesystem call of the run, the run returns
\* the error with the log as it was before that call, and the subtrees
\* moved earlier in the run stay at their new location.
C5_StopOnFirstError ==
    \A r \in Runs :
        r.kind = "ForReal" =>
            \A i \in Mutations(r) :
                ~r.ops[i].ok =>
                    /\ i = Len(r.ops)
                    /\ r.result = "Err"
                    /\ r.log = r.ops[i].at
                    /\ r.after = OnlyRenames(r)

\* C5 witness: a ForReal call moved script-cache, then failed at the
\* binary-cache rename, and returned.
C5_Witness ==
    \E r \in Runs :
        /\ r.kind = "ForReal"
        /\ Len(r.ops) = 2
        /\ r.ops[1].op = "rename" /\ r.ops[1].ok
        /\ r.ops[2].op = "rename" /\ ~r.ops[2].ok
        /\ r.after[new_of("script-cache")] = r.before[old_of("script-cache")]

\* the filesystem an uninterrupted, successful ForReal call leaves behind
MovedOut(f, n) == exists(f, old_of(n)) /\ ~exists(f, new_of(n))

SubtreesMoved(f) ==
    [q \in FsPaths |->
        IF \E n \in Subtrees : q = old_of(n) /\ MovedOut(f, n) THEN "absent"
        ELSE IF \E n \in Subtrees : q = new_of(n) /\ MovedOut(f, n)
          THEN f[old_of(CHOOSE n \in Subtrees : q = new_of(n))]
          ELSE f[q]]

Migrated(f) ==
    IF ~(HomeSet /\ exists(f, old_base(Home))) THEN f
    ELSE LET g == SubtreesMoved(f)
         IN  IF entries(g, old_base(Home)) = {}
               THEN [g EXCEPT ![old_base(Home)] = "absent"]
               ELSE g

\* a ForReal call that failed, and a later ForReal call that returned Ok
Retries ==
    { ij \in (DOMAIN runs) \X (DOMAIN runs) :
        /\ ij[1] < ij[2]
        /\ runs[ij[1]].kind = "ForReal" /\ runs[ij[1]].result = "Err"
        /\ runs[ij[2]].kind = "ForReal" /\ runs[ij[2]].result = "Ok" }

\* C6: a ForReal call that returns Ok leaves the filesystem Migrated(before);
\* a ForReal call that returns Ok after an earlier ForReal call failed
\* leaves the filesystem Migrated(the state before the failed call), renames
\* only subtrees that were still in the legacy root when it started, and
\* leaves what the failed call had moved where that call put it.
C6_RetryCompletes ==
    /\ \A r \in Runs :
          r.kind = "ForReal" /\ r.result = "Ok" =>
              r.after = Migrated(r.before)
    /\ \A ij \in Retries :
          LET first == runs[ij[1]]
              retry == runs[ij[2]]
          IN  /\ retry.after = Migrated(first.before)
              /\ \A o \in OkRenames(first) :
                    /\ retry.after[o.args[2]] = first.after[o.args[2]]
                    /\ \A k \in DOMAIN retry.ops :
                          retry.ops[k].op = "rename" =>
                              retry.ops[k].args # o.args
              /\ \A k \in DOMAIN retry.ops :
                    retry.ops[k].op = "rename" =>
                        exists(retry.before, retry.ops[k].args[1])

\* C6 witness: a ForReal call moved script-cache and failed at binary-cache;
\* a later ForReal call moved binary-cache and returned Ok.
C6_Witness ==
    \E ij \in Retries :
        /\ OkRenames(runs[ij[1]]) # {}
        /\ OkRenames(runs[ij[2]]) # {}
        /\ runs[ij[2]].after # runs[ij[2]].before

\* C7: in a call that returns Ok, each legacy subtree whose new location is
\* free has a "Moved" line naming its own legacy path and its own new path.
C7_MovedLineNamesOwnPaths ==
    HomeSet =>
      \A r \in Runs : \A n \in Subtrees :
          r.result = "Ok" /\ MovedOut(r.before, n) =>
              \E i \in DOMAIN r.log :
                  r.log[i] = MovedLine(old_of(n), new_of(n))

ScenarioA(f) ==
    /\ HomeSet
    /\ f[old_base(Home)] = "dir"
    /\ exists(f, old_of("script-cache"))
    /\ entries(f, old_base(Home)) = {old_of("script-cache")}
    /\ ~exists(f, new_of("script-cache"))
    /\ ~exists(f, new_of("binary-cache"))

\* C8: from Scenario A (the legacy root holds script-cache only, the new root
\* neither subtree), a ForReal call that the OS refuses nothing ends with
\* script-cache at the new root with its contents, no legacy script-cache,
\* no legacy root, Ok, and a log of two lines: the move, then the removal.
C8_ScenarioA ==
    \A r \in Runs :
        r.kind = "ForReal" /\ ScenarioA(r.before) /\ NoIoError(r) =>
            /\ r.after[new_of("script-cache")] = r.before[old_of("script-cache")]
            /\ ~exists(r.after, old_of("script-cache"))
            /\ ~exists(r.after, old_base(Home))
            /\ ~exists(r.after, new_of("binary-cache"))
            /\ r.result = "Ok"
            /\ r.log = << MovedLine(old_of("script-cache"),
                                    new_of("script-cache")),
                          RemovedLine(old_base(Home)) >>

\* C8 witness: a ForReal call from Scenario A has returned.
C8_Witness ==
    \E r \in Runs :
        r.kind = "ForReal" /\ ScenarioA(r.before) /\ NoIoError(r)

ScenarioB(f) ==
    /\ HomeSet
    /\ f[old_base(Home)] = "dir"
    /\ exists(f, old_of("script-cache"))
    /\ exists(f, old_of("binary-cache"))
    /\ ~exists(f, new_of("script-cache"))
    /\ exists(f, new_of("binary-cache"))

\* C9: from Scenario B (the legacy root holds both subtrees, the new root
\* holds binary-cache), a ForReal call that the OS refuses nothing moves
\* script-cache, leaves binary-cache as it was at both places, keeps the
\* legacy root, and its log has exactly one "Moved" line, for script-cache,
\* and exactly one "Did not move" line, for binary-cache.
C9_ScenarioB ==
    \A r \in Runs :
        r.kind = "ForReal" /\ ScenarioB(r.before) /\ NoIoError(r) =>
            /\ r.after[new_of("script-cache")] = r.before[old_of("script-cache")]
            /\ ~exists(r.after, old_of("script-cache"))
            /\ r.after[old_of("binary-cache")] = r.before[old_of("binary-cache")]
            /\ r.after[new_of("binary-cache")] = r.before[new_of("binary-cache")]
            /\ r.after[old_base(Home)] = "dir"
            /\ r.after[old_other(Home)] = r.before[old_other(Home)]
            /\ r.result = "Ok"
            /\ \E i \in DOMAIN r.log :
                  /\ LinesOf(r.log, MovedFmt) = {i}
                  /\ r.log[i] = MovedLine(old_of("script-cache"),
                                          new_of("script-cache"))
            /\ \E i \in DOMAIN r.log :
                  /\ LinesOf(r.log, DidNotMoveFmt) = {i}
                  /\ r.log[i] = DidNotMoveLine(old_of("binary-cache"),
                                               new_of("binary-cache"))
            /\ LinesOf(r.log, RemovedFmt) = {}

\* C9 witness: a ForReal call from Scenario B has returned.
C9_Witness ==
    \E r \in Runs :
        r.kind = "ForReal" /\ ScenarioB(r.before) /\ NoIoError(r)

(***************************************************************************)
(* Properties of get_cache_dir                                             *)
(***************************************************************************)
LegacyPreferred(f) ==
    /\ f[old_base(Home)] # "absent"
    /\ \E n \in Subtrees : old_of(n) \in entries(f, old_base(Home))

\* C10: with CARGO_HOME set to H, get_cache_dir returns H/.cargo if and only
\* if H/.cargo exists and holds script-cache or binary-cache, and returns H
\* in every other case.
C10_LegacyPreference ==
    (resolved # None /\ HomeSet) =>
        /\ resolved[1].ok
        /\ resolved[1].path = old_base(Home) <=> LegacyPreferred(fs)
        /\ ~LegacyPreferred(fs) => resolved[1].path = Home

\* C10 witness: get_cache_dir returned H/.cargo where the legacy root holds
\* binary-cache and no script-cache.
C10_Witness ==
    /\ resolved # None /\ HomeSet
    /\ exists(fs, old_of("binary-cache"))
    /\ ~exists(fs, old_of("script-cache"))
    /\ resolved[1] = OkPath(old_base(Home))

Range(q) == { q[i] : i \in DOMAIN q }

\* C11: with CARGO_HOME set the result is the same whatever HOME is, and is
\* CARGO_HOME or its .cargo; with CARGO_HOME unset and HOME set to D it is
\* D/.cargo; with neither set it is a Human-blamed error whose message names
\* both variables, and no path.
C11_ResolutionOrder ==
    resolved # None =>
        /\ HomeSet =>
              /\ \A h \in HomeValues :
                    get_cache_dir([env EXCEPT !.HOME = h], fs) = resolved[1]
              /\ resolved[1].ok
              /\ resolved[1].path \in {Home, old_base(Home)}
        /\ (~HomeSet /\ env.HOME # None) =>
              resolved[1] = OkPath(join(env.HOME[1], ".cargo"))
        /\ (~HomeSet /\ env.HOME = None) =>
              /\ ~resolved[1].ok
              /\ resolved[1].blame = "Human"
              /\ {"$CARGO_HOME", "$HOME"} \subseteq Range(resolved[1].msg)

\* C11 witness: get_cache_dir was called with neither variable set and
\* returned the error.
C11_Witness ==
    /\ resolved # None
    /\ env.CARGO_HOME = None /\ env.HOME = None
    /\ ~resolved[1].ok

\* Path::is_absolute
is_absolute(p) == p # <<>> /\ p[1] = "/"

\* C12: get_cache_dir returns an error or a non-empty absolute path.
C12_AbsoluteOrError ==
    resolved # None =>
        \/ ~resolved[1].ok
        \/ resolved[1].path # <<>> /\ is_absolute(resolved[1].path)

\* the stream was decoded by read_path (windows)
Decoded == path = None /\ stream # None /\ decoded # None

\* an odd number of bytes gives an error value, not a panic, and no path
OddIsError ==
    (Decoded /\ Len(stream[1]) % 2 = 1) =>
        /\ ~decoded[1].ok
        /\ "panic" \notin DOMAIN decoded[1]

\* an even number of bytes gives the path whose i-th unit is
\* byte[2i] + 256*byte[2i+1] (bytes counted from 0)
EvenDecodes ==
    (Decoded /\ Len(stream[1]) % 2 = 0) =>
        /\ decoded[1].ok
        /\ encode_wide(decoded[1].path)
             = [i \in 1..(Len(stream[1]) \div 2) |->
                  stream[1][2 * i - 1] + 256 * stream[1][2 * i]]

\* C13: read_path (windows) on an odd number of bytes returns a corruption
\* error value, without panicking and without a path; on an even number of
\* bytes it returns the path whose i-th 16-bit unit is
\* byte[2i] + 256*byte[2i+1].
C13_OddLengthIsCorruptionError == OddIsError /\ EvenDecodes

\* the time function named by timeIn has returned
Timed(fn) == timeIn # None /\ timeOut # None /\ timeIn[1].fn = fn

\* 1970-01-01T00:00:00Z as a FILETIME
EpochFileTime == << MS_BETWEEN_1601_1970[1], MS_BETWEEN_1601_1970[2], 0 >>

\* a FILETIME at or before the epoch
AtOrBeforeEpoch(ft) ==
    \/ less_than(ft, MS_BETWEEN_1601_1970)
    \/ ft = EpochFileTime

\* C14: current_time returns 0 when the clock reads before the epoch;
\* file_last_modified returns 0 when the metadata is unavailable or the
\* modification time is at or before the epoch, on both platform families.
C14_ClampFailOpen ==
    /\ (Timed("current_time") /\ timeIn[1].sec < 0) => timeOut[1] = 0
    /\ (Timed("file_last_modified") /\ timeIn[1].family = "unix") =>
          /\ timeIn[1].md = None => timeOut[1] = 0
          /\ (timeIn[1].md # None /\ timeIn[1].md[1] <= 0) => timeOut[1] = 0
    /\ (Timed("file_last_modified") /\ timeIn[1].family = "windows") =>
          /\ timeOut[1][1] >= 0 /\ timeOut[1][2] \in 0..(Million - 1)
          /\ timeIn[1].md = None => timeOut[1] = << 0, 0 >>
          /\ (timeIn[1].md # None /\ AtOrBeforeEpoch(timeIn[1].md[1])) =>
                timeOut[1] = << 0, 0 >>

\* C14 witness: file_last_modified (windows) was called on a file last
\* written before 1970 and returned.
C14_Witness ==
    /\ Timed("file_last_modified")
    /\ timeIn[1].family = "windows"
    /\ timeIn[1].md # None
    /\ less_than(timeIn[1].md[1], MS_BETWEEN_1601_1970)

\* both directory functions have returned
BothDirs == resolved # None /\ config # None

\* the two results agree: both fail, or both succeed with the same path
SameResult(a, b) ==
    /\ a.ok = b.ok
    /\ a.ok => a.path = b.path

\* the result of looking up one known folder and joining "Cargo"
FromFolder(res, rfid) ==
    LET a == known[1][rfid]
    IN  /\ res.ok = (a.hresult = S_OK)
        /\ res.ok => res.path = join(a.psz_path, "Cargo")
        /\ ~res.ok => res.msg = WinErrorString(a.hresult)

\* C15 as stated: on each platform family get_config_dir returns the same
\* result as get_cache_dir, the same path on success and an error in exactly
\* the same cases.
C15_ConfigEqualsCache ==
    BothDirs => SameResult(config[1], resolved[1])

\* C15 amended: on unix get_config_dir returns what get_cache_dir returns;
\* on windows get_cache_dir is the LocalAppData known folder joined with
\* "Cargo", get_config_dir the RoamingAppData known folder joined with
\* "Cargo", and each fails exactly when its own lookup fails.
C15_ConfigDirPerFamily ==
    BothDirs =>
        /\ target = "unix" => config[1] = resolved[1]
        /\ target = "windows" =>
              /\ FromFolder(resolved[1], "FOLDERID_LocalAppData")
              /\ FromFolder(config[1], "FOLDERID_RoamingAppData")

\* C15 witness: on windows both functions returned and the results differ.
C15_Witness ==
    /\ BothDirs
    /\ target = "windows"
    /\ ~SameResult(config[1], resolved[1])

\* ForReal calls in which both subtrees were processed: the call went on to
\* list the legacy root
Cleanups ==
    { r \in Runs :
        /\ r.kind = "ForReal"
        /\ \E i \in DOMAIN r.ops : r.ops[i].op = "read_dir" }

\* the listing or the removal of the legacy root failed
CleanupFailed(r) ==
    \E i \in DOMAIN r.ops :
        r.ops[i].op \in {"read_dir", "remove_dir"} /\ ~r.ops[i].ok

CleanupLines(l) == LinesOf(l, RemovedFmt) \cup LinesOf(l, NotRemovingFmt)

\* the cleanup as the claim describes it, from the filesystem g found after
\* the subtrees were processed
CleanedUp(r, g) ==
    LET root  == old_base(Home)
        empty == entries(g, root) = {}
    IN  /\ (r.after[root] = "absent") <=> empty
        /\ ~empty => r.after = g
        /\ empty => r.after = [g EXCEPT ![root] = "absent"]
        /\ r.log # <<>>
        /\ r.log[Len(r.log)] = (IF empty THEN RemovedLine(root)
                                         ELSE NotRemovingLine(root))
        /\ CleanupLines(r.log) = {Len(r.log)}

\* C16 as stated: after both subtrees were processed in a ForReal call the
\* legacy root is removed iff it has no entries, is otherwise left with its
\* contents unchanged, and in both cases exactly one log entry, the last,
\* records which.
C16_CleanupAlways ==
    \A r \in Cleanups : CleanedUp(r, OnlyRenames(r))

\* C16 amended: the same, unless listing or removing the legacy root fails;
\* then the call returns the error, the legacy root stays as it was and no
\* entry about it is appended.
C16_CleanupUnlessFailed ==
    \A r \in Cleanups :
        IF CleanupFailed(r)
          THEN /\ r.result = "Err"
               /\ r.after = OnlyRenames(r)
               /\ exists(r.after, old_base(Home))
               /\ CleanupLines(r.log) = {}
          ELSE /\ r.result = "Ok"
               /\ CleanedUp(r, OnlyRenames(r))

\* C16 witness: a ForReal call moved a subtree, found the legacy root empty
\* and removed it.
C16_Witness ==
    \E r \in Cleanups :
        /\ OkRenames(r) # {}
        /\ \E i \in DOMAIN r.ops : r.ops[i].op = "remove_dir" /\ r.ops[i].ok
        /\ r.after[old_base(Home)] = "absent"

\* the arm the detection logic takes for subtree n from filesystem f
ArmFrom(f, n) ==
    << old_of(n), match_arm(<< f[old_of(n)] # "absent", f[new_of(n)] # "absent" >>) >>

IsPrefix(a, b) == Len(a) <= Len(b) /\ SubSeq(b, 1, Len(a)) = a

\* a rename of the run failed, so the run stopped there
RenameFailed(r) ==
    \E i \in DOMAIN r.ops : r.ops[i].op = "rename" /\ ~r.ops[i].ok

\* C17: migrate_old_data(DryRun) leaves the filesystem exactly as it found
\* it, attempting no rename and no removal, and for each subtree takes the
\* arm that ForReal takes from the same state: the arm decided by which of
\* the subtree's two locations exist.
C17_DryRunMutatesNothing ==
    \A r \in Runs :
        r.kind = "DryRun" =>
            /\ r.after = r.before
            /\ Mutations(r) = {}
            /\ (HomeSet /\ r.before[old_base(Home)] # "absent") =>
                  r.arms = << ArmFrom(r.before, "script-cache"),
                              ArmFrom(r.before, "binary-cache") >>
            /\ \A r2 \in Runs :
                  (r2.kind = "ForReal" /\ r2.before = r.before) =>
                      /\ IsPrefix(r2.arms, r.arms)
                      /\ ~RenameFailed(r2) => r2.arms = r.arms

\* C17 witness: a DryRun call and a ForReal call started from the same
\* filesystem, and the ForReal call moved a subtree.
C17_Witness ==
    \E r, r2 \in Runs :
        /\ r.kind = "DryRun" /\ r2.kind = "ForReal"
        /\ r2.before = r.before
        /\ OkRenames(r2) # {}
        /\ r.arms = r2.arms

\* C18: when the legacy root does not exist (CARGO_HOME unset, or
\* CARGO_HOME/.cargo absent) migrate_old_data in either mode returns success
\* with an empty log, makes no filesystem call that could change anything
\* and leaves the filesystem as it was.
C18_NoLegacyRootNothingToDo ==
    \A r \in Runs :
        (~HomeSet \/ r.before[old_base(Home)] = "absent") =>
            /\ r.result = "Ok"
            /\ r.log = <<>>
            /\ r.ops = <<>>
            /\ r.arms = <<>>
            /\ r.after = r.before

\* C18 witness: a ForReal call returned with CARGO_HOME set, no legacy root
\* and a cache already at the new location.
C18_Witness ==
    \E r \in Runs :
        /\ r.kind = "ForReal"
        /\ HomeSet
        /\ r.before[old_base(Home)] = "absent"
        /\ r.before[new_of("script-cache")] # "absent"

\* a step that changes what is at the new location of subtree n puts the
\* legacy subtree where nothing was
OnlyIntoAbsent(n) ==
    fs'[new_of(n)] # fs[new_of(n)] =>
        /\ fs[new_of(n)] = "absent"
        /\ fs'[new_of(n)] = fs[old_of(n)]

\* C19: in every interleaving of the filesystem calls of two processes
\* running migrate_old_data(ForReal) on the same cache root, no rename
\* replaces or merges into a subtree that exists at the new location,
\* whether it was there beforehand or was put there by the other process.
C19_NeverOverwrites ==
    [][\A n \in Subtrees : OnlyIntoAbsent(n)]_vars

\* process p tried to move subtree n
TriedMove(p, n, ok) ==
    \E i \in DOMAIN ops[p] :
        /\ ops[p][i].op = "rename"
        /\ ops[p][i].args[1] = old_of(n)
        /\ ops[p][i].io
        /\ ops[p][i].ok = ok

\* C19 witness: both processes saw the same subtree at the old location only
\* and both called rename; one moved it, the other's rename was refused.
C19_Witness ==
    \E n \in Subtrees :
        /\ TriedMove(1, n, TRUE)
        /\ TriedMove(2, n, FALSE)
        /\ fs[new_of(n)] # "absent"

\* process p has made a call and it has returned
Done(p) == pc[p] = "idle" /\ result[p] # "none"

\* each of the two processes has made one call and both have returned
TwoCalls == Len(runs) = 2 /\ \A p \in Procs : Done(p)

\* no call of process p failed for a reason other than what the other
\* process did: the OS refused none, and the legacy root was not a file
NoOutsideFailure(p) ==
    /\ \A i \in DOMAIN ops[p] : ops[p][i].io
    /\ before[p][old_base(Home)] # "file"

\* the filesystem is what one uninterrupted run makes of the state either
\* process started from (one of the two started from the initial state)
FinalAsSingleRun ==
    \A p \in Procs : fs = Migrated(before[p])

LostRace(p, q) ==
    \A i \in DOMAIN ops[p] :
        ~ops[p][i].ok =>
            \E j \in DOMAIN ops[q] :
                /\ ops[q][j].ok
                /\ \/ ops[q][j].op = "rename" /\ ops[p][i].op = "rename"
                      /\ ops[q][j].args = ops[p][i].args
                   \/ ops[q][j].op = "remove_dir"
                      /\ ops[p][i].op \in {"read_dir", "remove_dir"}

AtStart == IF runs = <<>> THEN before[1] ELSE runs[1].before

\* subtree n is where it was at the start, with what it held
InPlace(f0, n) ==
    /\ fs[old_of(n)] = f0[old_of(n)]
    /\ fs[new_of(n)] = f0[new_of(n)]

\* the legacy copy of subtree n is now at the new location, which was free
MovedOver(f0, n) ==
    /\ f0[old_of(n)] # "absent" /\ f0[new_of(n)] = "absent"
    /\ fs[old_of(n)] = "absent"
    /\ fs[new_of(n)] = f0[old_of(n)]

\* C22: over any sequence of DryRun and ForReal calls, with an error
\* possible at every rename and removal, each subtree is in place with its
\* original contents or, for a legacy subtree whose new location was free,
\* at the new location and no longer in the legacy root; nothing else
\* changes except that the legacy root, once it has no entries, may be gone.
C22_NoDataLoss ==
    LET f0 == AtStart
    IN  IF ~HomeSet THEN fs = f0
        ELSE /\ \A n \in Subtrees :
                   /\ InPlace(f0, n) \/ MovedOver(f0, n)
                   /\ ~(InPlace(f0, n) /\ MovedOver(f0, n))
             /\ fs[old_other(Home)] = f0[old_other(Home)]
             /\ fs[old_base(Home)] # f0[old_base(Home)] =>
                   /\ f0[old_base(Home)] = "dir"
                   /\ fs[old_base(Home)] = "absent"
                   /\ entries(fs, old_base(Home)) = {}

\* C22 witness: after a ForReal call that failed at a rename or removal and
\* further calls, a legacy subtree is at its new location.
C22_Witness ==
    /\ Len(runs) >= 2
    /\ \E r \in Runs : \E i \in Mutations(r) : ~r.ops[i].ok
    /\ \E r \in Runs : r.kind = "DryRun"
    /\ HomeSet
    /\ \E n \in Subtrees : MovedOver(AtStart, n)

\* what get_cache_dir returns when called right after run r
ResolvedAfter(r) == get_cache_dir(env, r.after)

\* C23: after migrate_old_data(ForReal) returns success, every subtree that
\* run moved lies directly under the directory get_cache_dir then returns.
C23_MovedUnderResolvedRoot ==
    \A r \in Runs :
        (r.kind = "ForReal" /\ r.result = "Ok") =>
            \A o \in OkRenames(r) :
                /\ ResolvedAfter(r).ok
                /\ parent(o.args[2]) = ResolvedAfter(r).path

\* a step of the processing of a subtree (its two exists() tests and its
\* match), taken while the legacy copy does not exist, appends nothing to the
\* log, calls no rename, read_dir or remove_dir, leaves the filesystem as it
\* is, and from the match goes on to `next`
SkipsMissing(n, tests, arm, next) ==
    (pc[1] \in tests \cup {arm} /\ fs[old_of(n)] = "absent") =>
        /\ log' = log
        /\ ops' = ops
        /\ fs' = fs
        /\ result' = result
        /\ pc[1] = arm => pc'[1] = next

\* C24: for a subtree whose legacy copy does not exist the migration appends
\* no log entry and performs no filesystem operation on it, whether or not
\* the new-location subtree exists, and goes on with the next subtree
\* (after script-cache) or the legacy-root cleanup (after binary-cache).
C24_MissingLegacySkipped ==
    [][/\ SkipsMissing("script-cache", {"script_old", "script_new"},
                       "script_arm", "binary_old")
       /\ SkipsMissing("binary-cache", {"binary_old", "binary_new"},
                       "binary_arm", "read_dir")]_vars

\* C24 witness: a ForReal call found no legacy script-cache while a
\* script-cache existed at the new location, took the skip arm for it, went
\* on to move binary-cache and to list the legacy root.
C24_Witness ==
    \E r \in Runs :
        /\ r.kind = "ForReal"
        /\ HomeSet
        /\ r.before[old_of("script-cache")] = "absent"
        /\ r.before[new_of("script-cache")] # "absent"
        /\ r.arms = << << old_of("script-cache"), "skip" >>,
                       << old_of("binary-cache"), "move" >> >>
        /\ \E i \in DOMAIN r.ops : r.ops[i].op = "read_dir"
        /\ r.after[new_of("script-cache")] = r.before[new_of("script-cache")]

\* get_matches has returned for an argument list that has a program name
Parsed == argv # None /\ matches # None /\ argv[1] # <<>>

EvalArg == << "e", "v", "a", "l" >>

\* the first argument after the program name is "eval"
HasEval(a) == Len(a) >= 2 /\ a[2] = EvalArg

\* C20: when the first argument after the program name is absent or is not
\* "eval", "eval" is inserted at position 1 before parsing, so the list is
\* parsed as `cargo eval ...`, and `--version` alone succeeds reporting
\* "cargo-eval" with the package version; when the first argument already is
\* "eval" the argument list is left unchanged.
C20_ArgumentNormalisation ==
    Parsed =>
        LET a == argv[1]
            m == matches[1]
        IN  /\ HasEval(a) => m.args = a
            /\ ~HasEval(a) => m.args = << a[1], EvalArg >> \o Tail(a)
            /\ m.exit \in {"success", "none"}
            /\ m.exit = "none" =>
                  m.subcommand = EvalArg /\ m.matches = SubSeq(m.args, 3, Len(m.args))
            /\ (Len(a) = 2 /\ a[2] = DashDashVersion) =>
                  /\ m.exit = "success"
                  /\ m.stdout = << NAME, CARGO_PKG_VERSION >>

\* C20 witness: the program was called with `--version` alone and
\* get_matches returned.
C20_Witness ==
    /\ Parsed
    /\ argv[1] = << NAME, DashDashVersion >>
    /\ matches[1].args = << NAME, EvalArg, DashDashVersion >>

(***************************************************************************)
(* Properties of write_path / read_path                                    *)
(***************************************************************************)
\* C4: read_path on the bytes write_path produced for a path returns that
\* path: for every byte sequence on unix, and for every sequence of 16-bit
\* units, unpaired surrogates included, on windows.
C4_RoundTrip ==
    decoded # None => decoded[1] = OkRead(path[1].os)

\* C4 witness: a windows path of two or more units holding an unpaired high
\* surrogate has been written and read back.
C4_Witness ==
    /\ decoded # None
    /\ path[1].family = "windows"
    /\ Len(path[1].os) >= 2
    /\ \E i \in DOMAIN path[1].os : is_high_surrogate(path[1].os[i])
    /\ Len(stream[1]) = 2 * Len(path[1].os)

====
